---- MODULE Spec2Model ----
(***************************************************************************)
(* Label reconciliation of lamindb: register_labels and its stages          *)
(* (src/lamindb/validation/_register.py), run by a single synchronous       *)
(* caller against one local registry, one using instance and one public    *)
(* reference.  Two further operations are modelled on state of their own:  *)
(* register_artifact (same file, ArtifactSpec) and sign_in_hub              *)
(* (src/lamindb/_setup/_hub.py, HubSpec).  FairSpec is Spec with the        *)
(* fairness that a call under way takes its next step.                      *)
(*                                                                          *)
(* Values are numbers 0..MaxValue.  Value 0 stands for the string           *)
(* "is_<feature_name>", so that a caller can pass the parent label's own    *)
(* name as a value.  A record is a pair <<origin, value>>: its origin       *)
(* ("using", "public", "new") stands for its uid, its value for the content *)
(* of the reconciled field.  The local registry is a bag of records, so     *)
(* that two rows with the same content are representable.                   *)
(***************************************************************************)
EXTENDS Integers, Sequences, FiniteSets, Bags, TLC

\* ------------------------------------------------------------------ bounds

MaxValue == 2

MaxLen == 2

\* register_artifact: obs columns in `fields`, artifacts stored over a run
MaxFields == 2
MaxArtifacts == 2

\* sign_in_hub: users of the hub, user identifiers
MaxUsers == 2
MaxIds == 2

Values == 0..MaxValue

\* The value that reads "is_<feature_name>" (f-string of line 204).
ParentName == 0

\* ln.settings.verbosity levels; "error" is the level the call overrides to.
VerbosityLevels == {"error", "warning"}

\* ------------------------------------------------------- the environment

\* Registry types and the fields a call may name: ULabel is the free-form
\* label type, Feature the feature registry, Gene a registry with a public
\* reference that is scoped by organism.
RegistryFields ==
    { <<"ULabel", "name">>, <<"ULabel", "description">>,
      <<"Feature", "name">>, <<"Gene", "symbol">> }

\* hasattr(registry, "public")
HasPublic(reg) == reg = "Gene"

\* what the registry type requires of check_if_registry_needs_organism
RequiresOrganism(reg) == reg = "Gene"

\* The values for which the using instance named "other" holds a record.
UsingContent == {v \in Values : v % 2 = 1}

\* The values the public reference of a registry can build a record for.
PublicContent(reg) ==
    IF HasPublic(reg) THEN {v \in Values : v % 4 \in {1, 2}} ELSE {}

\* The instance names _registry_using can resolve.
KnownInstances == {"default", "other"}

UsingNames == {"none", "default", "other", "unknown"}

\* ------------------------------------------------------------ the inputs

ToSet(s) == {s[i] : i \in DOMAIN s}

\* Lists of values of length <= MaxLen, duplicates included, up to order.
InputLists ==
    UNION { {s \in [1..n -> Values] : \A i \in 1..(n - 1) : s[i] <= s[i + 1]}
            : n \in 0..MaxLen }

NoDf == [given |-> FALSE, columns |-> {}]

\* The dataframes a call may pass along with `values`: none, one whose
\* columns are the values and, for the feature registry, one whose columns are
\* the two largest values whatever `values` is.
DfChoices(reg, vals) ==
    IF reg = "Feature"
    THEN {NoDf} \cup
         { [given |-> TRUE, columns |-> c] :
             c \in {ToSet(vals), {MaxValue - 1, MaxValue}} }
    ELSE {NoDf, [given |-> TRUE, columns |-> ToSet(vals)]}

ArgsFor(reg) ==
    UNION { { [values |-> vs, using |-> u, validated_only |-> vo, df |-> d,
               organism |-> org] :
                u \in UsingNames, vo \in BOOLEAN, d \in DfChoices(reg, vs),
                org \in (IF RequiresOrganism(reg) THEN BOOLEAN ELSE {FALSE}) }
            : vs \in InputLists }

\* The extra-attributes mapping a caller passes: the organism where it
\* supplies one, and neither the field's own key (field = -1) nor "type".
KwargsOf(a) == [organism |-> a.organism, field |-> -1, type |-> FALSE]

NoArgs ==
    [values |-> <<>>, using |-> "none", validated_only |-> TRUE, df |-> NoDf,
     organism |-> FALSE]

\* --------------------------------------------------------------- the state

VARIABLES
    registry,     \* field.field.model: the registry type of the field
    fieldName,    \* field.field.name
    verbosity,    \* ln.settings.verbosity, process-wide
    local,        \* the local (default) instance's registry: a bag of records
    children,     \* values of the records linked as children of the parent label
    pc,           \* where the current register_labels call stands
    args,         \* the arguments of the current call
    prior,        \* verbosity when the current call was made
    saved,        \* the call's variable `verbosity` (line 95)
    validated,    \* inspect_result_current.validated
    nonValidated, \* inspect_result_current.non_validated
    leftover,     \* non_validated_labels
    fromUsing,    \* labels_registered[f"from {using}"]
    fromPublic,   \* labels_registered["from public"]
    withoutRef,   \* labels_registered["without reference"]
    ops,          \* the collaborator operations the current call has issued
    written,      \* the records the current call has inserted locally
    linked,       \* the parent-child links the current call has added
    reports,      \* how often the current call ran log_registered_labels
    raised,       \* "none", or the operation whose exception ended the call
    repeat,       \* the current call repeats the previous, completed one
    prev,         \* the buckets of the previous call when repeat holds
    kwargs,       \* the caller's extra-attributes mapping (kwargs)
    art,          \* register_artifact: the current call and the stored artifacts
    hub           \* sign_in_hub: the current call and the hub's usermeta table

world == <<registry, fieldName>>

buckets == <<validated, nonValidated, leftover, fromUsing, fromPublic, withoutRef>>

history == <<repeat, prev>>

vars ==
    <<registry, fieldName, verbosity, local, children, pc, args, prior, saved,
      validated, nonValidated, leftover, fromUsing, fromPublic, withoutRef,
      ops, written, linked, reports, raised, repeat, prev, kwargs, art, hub>>

\* what register_labels never touches
others == <<art, hub>>

NoPrev ==
    [validated |-> {}, fromUsing |-> {}, fromPublic |-> {}, withoutRef |-> {},
     reported |-> FALSE, written |-> {}]

\* ------------------------------------------------- registries and records

\* The records of the using instance.
UsingRegistry == {<<"using", v>> : v \in UsingContent}

ValuesOf(recs) == {r[2] : r \in recs}

Origins == {"using", "public", "new"}

\* How many rows of the bag hold value v in the reconciled field.
Rows(loc, v) ==
    CopiesIn(<<"using", v>>, loc) + CopiesIn(<<"public", v>>, loc)
    + CopiesIn(<<"new", v>>, loc)

\* registry.inspect(values, field, mute=True, **kwargs): the exact partition
\* of the distinct values by membership under the field.
Inspect(recs, vals) ==
    [validated |-> {v \in vals : v \in ValuesOf(recs)},
     non_validated |-> {v \in vals : v \notin ValuesOf(recs)}]

\* record.save() / ln.save(records).  A candidate is <<origin, value, adding>>:
\* a newly constructed record (adding) is inserted, a record that carries the
\* uid of a stored record is upserted under that uid.
Save(loc, cands) ==
    loc (+) SetToBag({ <<c[1], c[2]>> :
                         c \in {d \in cands :
                                  d[3] \/ ~BagIn(<<d[1], d[2]>>, loc)} })

\* The records of which bag `after` holds more rows than bag `before`.
NewRows(before, after) ==
    {r \in BagToSet(after) : CopiesIn(r, after) > CopiesIn(r, before)}

\* registry.from_values(values, field, **kwargs): the stored records of the
\* values, and a new record from the public reference for each other value
\* the reference knows.
FromValues(reg, loc, vals) ==
    {<<r[1], r[2], FALSE>> : r \in {q \in BagToSet(loc) : q[2] \in vals}}
    \cup {<<"public", v, TRUE>> :
            v \in {w \in vals \cap PublicContent(reg) :
                     w \notin ValuesOf(BagToSet(loc))}}

\* ln.Feature.from_df(df): one candidate per column label, the stored record
\* where the registry holds one.
FromDf(loc, df) ==
    {<<r[1], r[2], FALSE>> : r \in {q \in BagToSet(loc) : q[2] \in df.columns}}
    \cup {<<"new", c, TRUE>> :
            c \in {w \in df.columns : w \notin ValuesOf(BagToSet(loc))}}

\* ------------------------------------------------------------- the stages
\* A stage is an operator from its inputs to the set of its outcomes: how it
\* can end (raised = "none", or the operation that raised), what it returns,
\* the local registry it leaves, the operations it issued, the rows it
\* inserted.

\* IsLocalInstance that falls back to the local instance when the named
\* instance is not known
IsLocalInstanceOrUnresolved(using) ==
    using \in {"none", "default"} \/ using \notin KnownInstances

\* IsLocalInstance with the test against "default" left out
IsLocalInstanceNoneOnly(using) == using = "none"

\* line 230: the call names no instance other than the local one
IsLocalInstance(using) == using = "none" \/ using = "default"

\* CopyToLocal with the save left out
CopyToLocalNotSaved(loc, labels_using) == loc

\* lines 242-243: label_using.save() for every record found in the using
\* instance copies it into the local registry
CopyToLocal(loc, labels_using) == Save(loc, labels_using)

\* NotRegistered that hands every value on to the next stage
NotRegisteredAllValues(values, inspect_result_using) == values

\* line 245: what the using instance leaves unresolved
NotRegistered(values, inspect_result_using) ==
    inspect_result_using.non_validated

\* register_labels_from_using_instance(values, field, using, kwargs)
RegisterLabelsFromUsingInstance(values, using, loc) ==
    IF IsLocalInstance(using)
    THEN { [raised |-> "none", labels_registered |-> {},
            not_registered |-> values, local |-> loc, ops |-> {}] }
    ELSE IF using \notin KnownInstances
    THEN { [raised |-> "_registry_using", labels_registered |-> {},
            not_registered |-> values, local |-> loc,
            ops |-> {"_registry_using"}] }
    ELSE LET inspect_result_using == Inspect(UsingRegistry, values)
             labels_using ==
                 {<<r[1], r[2], FALSE>> :
                    r \in {q \in UsingRegistry :
                             q[2] \in inspect_result_using.validated}}
             issued == {"_registry_using", "inspect_using", "filter_using"}
         IN  { [raised |-> "inspect_using", labels_registered |-> {},
                not_registered |-> values, local |-> loc,
                ops |-> {"_registry_using", "inspect_using"}] }
             \cup
             { [raised |-> "none",
                labels_registered |-> ValuesOf(labels_using),
                not_registered |-> NotRegistered(values, inspect_result_using),
                local |-> CopyToLocal(loc, labels_using),
                ops |-> issued \cup
                        (IF labels_using = {} THEN {} ELSE {"save_using"})] }
             \cup
             \* label_using.save() raises after some records were copied
             { [raised |-> "save_using", labels_registered |-> ValuesOf(done),
                not_registered |-> values, local |-> CopyToLocal(loc, done),
                ops |-> issued \cup {"save_using"}] :
                 done \in (SUBSET labels_using) \ {labels_using} }

\* WithoutReference that does not take the public-reference values out
WithoutReferenceUnfiltered(non_validated_labels, from_public) ==
    non_validated_labels

\* lines 131-133: the leftovers the public reference built no record for
WithoutReference(non_validated_labels, from_public) ==
    {i \in non_validated_labels : i \notin from_public}

\* LooksUp that looks up whatever is left, nothing included
LooksUpAlways(non_validated_labels) == TRUE

\* line 124: from_values is called if len(non_validated_labels) > 0
LooksUp(non_validated_labels) == Cardinality(non_validated_labels) > 0

\* lines 121-133: the public-reference lookup of the using stage's leftovers
PublicReference(reg, loc, non_validated_labels) ==
    LET from_values_records ==
            IF LooksUp(non_validated_labels)
            THEN FromValues(reg, loc, non_validated_labels)
            ELSE {}
        from_public == ValuesOf(from_values_records)
        issued == IF LooksUp(non_validated_labels) THEN {"from_values"} ELSE {}
    IN  { [raised |-> "none", from_public |-> from_public,
           without_reference |->
               WithoutReference(non_validated_labels, from_public),
           local |-> Save(loc, from_values_records),
           ops |-> issued \cup
                   (IF from_values_records = {} THEN {} ELSE {"save"})] }
        \cup
        { [raised |-> "from_values", from_public |-> {},
           without_reference |-> {}, local |-> loc, ops |-> issued] : x \in issued }
        \cup
        { [raised |-> "save", from_public |-> {}, without_reference |-> {},
           local |-> loc, ops |-> issued \cup {"save"}] :
            x \in {r \in from_values_records : r[3]} }

\* PlaceholderRecords that keeps the record of one value only
PlaceholderRecordsOneOnly(without_reference) ==
    {<<"new", value, TRUE>> :
       value \in {v \in without_reference :
                    \A w \in without_reference : v <= w}}

\* lines 144-151: one new record per value without reference
PlaceholderRecords(without_reference) ==
    {<<"new", value, TRUE>> : value \in without_reference}

\* lines 134-152: the placeholder registrar
PlaceholderRegistrar(reg, loc, df, from_using, from_public, without_reference) ==
    LET dataframe_mode == df.given /\ reg = "Feature"
        non_validated_records ==
            IF dataframe_mode
            THEN FromDf(loc, df)
            ELSE PlaceholderRecords(without_reference)
        bucket ==
            IF dataframe_mode
            THEN {col \in df.columns :
                    col \notin from_public /\ col \notin from_using}
            ELSE without_reference
        issued ==
            IF dataframe_mode THEN {"from_df"}
            ELSE IF without_reference = {} THEN {} ELSE {"new_record"}
    IN  { [raised |-> "none", without_reference |-> bucket,
           local |-> Save(loc, non_validated_records),
           ops |-> issued \cup
                   (IF non_validated_records = {} THEN {}
                    ELSE {"save_placeholders"})] }
        \cup
        { [raised |-> "from_df", without_reference |-> without_reference,
           local |-> loc, ops |-> {"from_df"}] :
            x \in {1 : y \in {dataframe_mode} \ {FALSE}} }
        \cup
        { [raised |-> "save_placeholders", without_reference |-> bucket,
           local |-> loc, ops |-> issued \cup {"save_placeholders"}] :
            x \in {r \in non_validated_records : r[3]} }

\* line 145: the last value the loop visits; the bucket keeps the order of the
\* input values, which the model lists in non-decreasing order
LastOf(without_reference) ==
    CHOOSE v \in without_reference : \A w \in without_reference : w <= v

\* lines 135, 144-149: outside the dataframe-derived mode the loop assigns
\* kwargs[field.field.name] = value for each value without reference, and
\* kwargs["type"] = "category" for the feature registry, in the mapping it
\* was passed
KwargsAfterPlaceholders(reg, df, kw, without_reference) ==
    IF (df.given /\ reg = "Feature") \/ without_reference = {}
    THEN kw
    ELSE [kw EXCEPT !.field = LastOf(without_reference),
                    !.type = @ \/ reg = "Feature"]

\* IsFeature without the lookup
IsFeatureNotLookedUp(loc) == {}

\* line 204: registry.filter(name=f"is_{feature_name}"), the stored records
\* that carry the parent label's name
IsFeature(loc) == {r \in BagToSet(loc) : r[2] = ParentName}

\* LinkedChildren that sets the children instead of adding to them
LinkedChildrenSet(ch, all_records) == ValuesOf(all_records)

\* line 209: is_feature.children.add(*all_records); a record that is a child
\* already stays one
LinkedChildren(ch, all_records) == ch \cup ValuesOf(all_records)

\* register_ulabels_with_parent(values, field, feature_name)
RegisterULabelsWithParent(values, loc, ch) ==
    LET all_records == FromValues("ULabel", loc, values)
        found == IsFeature(loc)
        several == Cardinality(found) > 1
                   \/ \E r \in found : CopiesIn(r, loc) > 1
        create == found = {}
        is_feature == IF create THEN {<<"new", ParentName, TRUE>>} ELSE {}
        lookup == {"link_from_values", "filter_parent"}
        saving == IF create THEN {"save_parent"} ELSE {}
        unsaved == \E r \in all_records : r[3]
    IN  { [raised |-> "link_from_values", local |-> loc, children |-> ch,
           ops |-> {"link_from_values"}, linked |-> {}] }
        \cup
        \* one_or_none() raises when several records carry the name
        { [raised |-> "one_or_none", local |-> loc, children |-> ch,
           ops |-> lookup, linked |-> {}] :
            x \in {1 : y \in {several} \ {FALSE}} }
        \cup
        { [raised |-> "save_parent", local |-> loc, children |-> ch,
           ops |-> lookup \cup saving, linked |-> {}] :
            x \in {1 : y \in {create /\ ~several} \ {FALSE}} }
        \cup
        \* children.add raises: always possible, certain for an unsaved record
        { [raised |-> "children_add", local |-> Save(loc, is_feature),
           children |-> ch, ops |-> lookup \cup saving \cup {"children_add"}, linked |-> {}] :
            x \in {1 : y \in {~several} \ {FALSE}} }
        \cup
        { [raised |-> "none", local |-> Save(loc, is_feature),
           children |-> LinkedChildren(ch, all_records),
           ops |-> lookup \cup saving \cup {"children_add"},
           linked |-> ValuesOf(all_records) \ ch] :
            x \in {1 : y \in {~several /\ ~unsaved} \ {FALSE}} }

\* ------------------------------------------------------ register_artifact

\* What a caller may pass as `data`: the two supported frames and two
\* objects that are neither.
DataKinds == {"AnnData", "DataFrame", "ndarray", "dict"}

\* the obs columns `fields` may name
FieldNames == 1..MaxFields

\* Constructor that takes whatever is not an AnnData for a DataFrame
ConstructorDuckTyped(data) ==
    IF data = "AnnData" THEN "from_anndata" ELSE "from_df"

\* lines 29-35: the constructor the type of `data` selects, or the ValueError
Constructor(data) ==
    CASE data = "AnnData" -> "from_anndata"
      [] data = "DataFrame" -> "from_df"
      [] OTHER -> "ValueError"

NoArtifact ==
    [pc |-> "idle", data |-> "none", todo |-> {}, needs |-> FALSE,
     organism |-> FALSE, created |-> FALSE, n_obs |-> FALSE, featured |-> FALSE,
     labelled |-> {}, ops |-> {}, raised |-> "none", stored |-> 0, before |-> 0]

\* ------------------------------------------------------------ sign_in_hub

Users == 1..MaxUsers

\* the identifiers id.id_user() may generate
Ids == 1..MaxIds

\* Asserted with assertions stripped
AssertedStripped(data) == TRUE

\* line 52: assert len(data.data) > 0
Asserted(data) == data

NoSignIn ==
    [pc |-> "idle", user |-> 0, usermeta |-> [u \in Users |-> 0],
     found |-> FALSE, data |-> FALSE, user_id |-> 0, inserts |-> 0,
     session |-> FALSE, result |-> 0, raised |-> "none"]

\* ------------------------------------------------------------ the actions

Init ==
    /\ \E rf \in RegistryFields : registry = rf[1] /\ fieldName = rf[2]
    /\ verbosity \in VerbosityLevels
    /\ local = EmptyBag
    /\ children = {}
    /\ pc = "idle"
    /\ args = NoArgs
    /\ prior = verbosity
    /\ saved = "unset"
    /\ validated = {} /\ nonValidated = {} /\ leftover = {}
    /\ fromUsing = {} /\ fromPublic = {} /\ withoutRef = {}
    /\ ops = {} /\ written = {} /\ linked = {}
    /\ reports = 0
    /\ raised = "none"
    /\ repeat = FALSE
    /\ prev = NoPrev
    /\ kwargs = KwargsOf(NoArgs)
    /\ art = NoArtifact
    /\ hub = NoSignIn

\* MissingOrganism that checks nothing
MissingOrganismUnchecked(reg, organism) == FALSE

\* line 94: check_if_registry_needs_organism(registry,
\* kwargs.get("organism")) raises for a registry that requires an organism
\* when none is supplied
MissingOrganism(reg, organism) == RequiresOrganism(reg) /\ ~organism

\* EffectiveValidatedOnly that never keeps the caller's flag
EffectiveValidatedOnlyNever(reg, validated_only) == FALSE

\* lines 90-92: a registry without a public reference registers every value
EffectiveValidatedOnly(reg, validated_only) ==
    IF ~HasPublic(reg) THEN FALSE ELSE validated_only

\* line 155: the registry is the free-form label type, the field its name
LinksParent(reg, field) == reg = "ULabel" /\ field = "name"

\* FullyValidated that never returns early
FullyValidatedNever(inspect_result_current) == FALSE

\* line 103: everything is validated in the current instance
FullyValidated(inspect_result_current) ==
    Cardinality(inspect_result_current.non_validated) = 0

\* Finally that restores nothing
FinallyMissing == UNCHANGED verbosity

\* lines 157-158: the finally clause
Finally == verbosity' = saved

\* an exception leaves the try block through the finally clause
Raise(op) ==
    /\ pc' = "FAILED"
    /\ raised' = op
    /\ Finally

\* Goto that reaches the report with the override still in place
GotoBeforeFinally(stage) ==
    /\ pc' = stage
    /\ UNCHANGED <<raised, verbosity>>

\* the try block is left for the report through the finally clause
Goto(stage) ==
    /\ pc' = stage
    /\ UNCHANGED raised
    /\ IF stage = "REPORT" THEN Finally ELSE UNCHANGED verbosity

\* AfterPlaceholder that returns without the report
AfterPlaceholderSkipsReport ==
    IF LinksParent(registry, fieldName) THEN "HIERARCHY_LINK" ELSE "DONE"

\* lines 154-159: the parent linking where it applies, then the report
AfterPlaceholder ==
    IF LinksParent(registry, fieldName) THEN "HIERARCHY_LINK" ELSE "REPORT"

\* line 134: the placeholder registrar runs unless validated_only holds
AfterPublicReference ==
    IF ~EffectiveValidatedOnly(registry, args.validated_only)
    THEN "PLACEHOLDER"
    ELSE AfterPlaceholder

\* A caller calls register_labels(values, field, feature_name, using,
\* validated_only, kwargs, df).
Call(a) ==
    /\ pc = "idle"
    /\ args' = a
    /\ prior' = verbosity
    /\ pc' = "START"
    /\ kwargs' = KwargsOf(a)
    /\ UNCHANGED <<world, others, verbosity, local, children, saved, buckets, ops,
                   written, linked, reports, raised, history>>

\* The caller repeats the call that has just completed, with the same
\* arguments and nothing done in between.
CallAgain ==
    /\ pc = "DONE"
    /\ ~repeat
    /\ args' = args
    /\ prior' = verbosity
    /\ pc' = "START"
    /\ repeat' = TRUE
    /\ prev' = [validated |-> validated, fromUsing |-> fromUsing,
                fromPublic |-> fromPublic, withoutRef |-> withoutRef,
                reported |-> reports > 0, written |-> written]
    /\ saved' = "unset"
    /\ validated' = {} /\ nonValidated' = {} /\ leftover' = {}
    /\ fromUsing' = {} /\ fromPublic' = {} /\ withoutRef' = {}
    /\ ops' = {} /\ written' = {} /\ linked' = {}
    /\ reports' = 0
    /\ raised' = "none"
    /\ kwargs' = KwargsOf(args)
    /\ UNCHANGED <<world, others, verbosity, local, children>>

\* lines 88-97: the organism check, then the verbosity override
Start ==
    /\ pc = "START"
    /\ IF MissingOrganism(registry, args.organism)
       THEN /\ pc' = "FAILED"
            /\ raised' = "check_if_registry_needs_organism"
            /\ UNCHANGED <<verbosity, saved>>
       ELSE /\ saved' = verbosity
            /\ verbosity' = "error"
            /\ pc' = "LOCAL_INSPECT"
            /\ UNCHANGED raised
    /\ UNCHANGED <<world, others, kwargs, local, children, args, prior, buckets, ops, written,
                   linked, reports, history>>

\* lines 100-108: the local inspection and the early return
LocalInspect ==
    /\ pc = "LOCAL_INSPECT"
    /\ ops' = ops \cup {"inspect"}
    /\ \/ /\ Raise("inspect")
          /\ UNCHANGED buckets
       \/ LET inspect_result_current ==
                  Inspect(BagToSet(local), ToSet(args.values))
          IN  /\ validated' = inspect_result_current.validated
              /\ nonValidated' = inspect_result_current.non_validated
              /\ UNCHANGED <<leftover, fromUsing, fromPublic, withoutRef>>
              /\ IF FullyValidated(inspect_result_current)
                 THEN /\ verbosity' = saved
                      /\ pc' = "DONE"
                      /\ UNCHANGED raised
                 ELSE Goto("CROSS_INSTANCE")
    /\ UNCHANGED <<world, others, kwargs, local, children, args, prior, saved, written, linked,
                   reports, history>>

\* lines 110-119: the using instance
CrossInstance ==
    /\ pc = "CROSS_INSTANCE"
    /\ \E o \in RegisterLabelsFromUsingInstance(nonValidated, args.using, local) :
          /\ local' = o.local
          /\ ops' = ops \cup o.ops
          /\ written' = written \cup NewRows(local, o.local)
          /\ IF o.raised # "none"
             THEN /\ Raise(o.raised)
                  /\ UNCHANGED <<fromUsing, leftover>>
             ELSE /\ fromUsing' = o.labels_registered
                  /\ leftover' = o.not_registered
                  /\ Goto("PUBLIC_REFERENCE")
    /\ UNCHANGED <<world, others, kwargs, children, args, prior, saved, validated, nonValidated,
                   fromPublic, withoutRef, linked, reports, history>>

\* lines 121-133: the public reference
PublicReferenceStage ==
    /\ pc = "PUBLIC_REFERENCE"
    /\ \E o \in PublicReference(registry, local, leftover) :
          /\ local' = o.local
          /\ ops' = ops \cup o.ops
          /\ written' = written \cup NewRows(local, o.local)
          /\ IF o.raised # "none"
             THEN /\ Raise(o.raised)
                  /\ UNCHANGED <<fromPublic, withoutRef>>
             ELSE /\ fromPublic' = o.from_public
                  /\ withoutRef' = o.without_reference
                  /\ Goto(AfterPublicReference)
    /\ UNCHANGED <<world, others, kwargs, children, args, prior, saved, validated, nonValidated,
                   leftover, fromUsing, linked, reports, history>>

\* lines 134-152: the placeholder records
Placeholder ==
    /\ pc = "PLACEHOLDER"
    /\ \E o \in PlaceholderRegistrar(registry, local, args.df, fromUsing,
                                     fromPublic, withoutRef) :
          /\ local' = o.local
          /\ ops' = ops \cup o.ops
          /\ written' = written \cup NewRows(local, o.local)
          /\ IF o.raised # "none"
             THEN /\ Raise(o.raised)
                  /\ UNCHANGED withoutRef
             ELSE /\ withoutRef' = o.without_reference
                  /\ Goto(AfterPlaceholder)
    /\ kwargs' = KwargsAfterPlaceholders(registry, args.df, kwargs, withoutRef)
    /\ UNCHANGED <<world, others, children, args, prior, saved, validated, nonValidated,
                   leftover, fromUsing, fromPublic, linked, reports, history>>

\* lines 154-156: the parent label
HierarchyLink ==
    /\ pc = "HIERARCHY_LINK"
    /\ \E o \in RegisterULabelsWithParent(ToSet(args.values), local, children) :
          /\ local' = o.local
          /\ children' = o.children
          /\ ops' = ops \cup o.ops
          /\ written' = written \cup NewRows(local, o.local)
          /\ linked' = linked \cup o.linked
          /\ IF o.raised # "none" THEN Raise(o.raised) ELSE Goto("REPORT")
    /\ UNCHANGED <<world, others, kwargs, args, prior, saved, buckets, reports, history>>

\* lines 159-164: log_registered_labels
Report ==
    /\ pc = "REPORT"
    /\ reports' = reports + 1
    /\ ops' = ops \cup {"log"}
    /\ pc' = "DONE"
    /\ UNCHANGED <<world, others, kwargs, verbosity, local, children, args, prior, saved,
                   buckets, written, linked, raised, history>>

\* The call has returned or raised, and the caller goes on.
Return ==
    /\ pc \in {"DONE", "FAILED"}
    /\ pc' = "idle"
    /\ args' = NoArgs
    /\ prior' = verbosity
    /\ saved' = "unset"
    /\ validated' = {} /\ nonValidated' = {} /\ leftover' = {}
    /\ fromUsing' = {} /\ fromPublic' = {} /\ withoutRef' = {}
    /\ ops' = {} /\ written' = {} /\ linked' = {}
    /\ reports' = 0
    /\ raised' = "none"
    /\ repeat' = FALSE
    /\ prev' = NoPrev
    /\ kwargs' = KwargsOf(NoArgs)
    /\ UNCHANGED <<world, others, verbosity, local, children>>

\* Any call a caller can make, once the previous one has returned.
NewCall ==
    /\ pc = "idle"
    /\ \E a \in ArgsFor(registry) : Call(a)

Next ==
    \/ NewCall
    \/ CallAgain
    \/ Return
    \/ Start
    \/ LocalInspect
    \/ CrossInstance
    \/ PublicReferenceStage
    \/ Placeholder
    \/ HierarchyLink
    \/ Report

Spec == Init /\ [][Next]_vars

\* The steps of a call that is under way: the code is synchronous and has no
\* loop but the bounded ones over its lists, so a call goes on as long as
\* its collaborators return or raise.
Running ==
    \/ Start
    \/ LocalInspect
    \/ CrossInstance
    \/ PublicReferenceStage
    \/ Placeholder
    \/ HierarchyLink
    \/ Report

FairSpec == Spec /\ WF_vars(Running)

TypeOK ==
    /\ pc \in {"idle", "START", "LOCAL_INSPECT", "CROSS_INSTANCE",
               "PUBLIC_REFERENCE", "PLACEHOLDER", "HIERARCHY_LINK", "REPORT",
               "DONE", "FAILED"}
    /\ verbosity \in VerbosityLevels
    /\ reports \in 0..1

\* ------------------------------------------- register_artifact, the steps

\* what register_artifact never touches
labelsState ==
    <<registry, fieldName, verbosity, local, children, pc, args, prior, saved,
      buckets, ops, written, linked, reports, raised, history, kwargs>>

ArtRaise(op) == [art EXCEPT !.pc = "FAILED", !.raised = op, !.ops = @ \cup {op}]

\* A caller calls register_artifact(data, description, fields,
\* feature_field, **kwargs).
ArtCall ==
    /\ art.pc = "idle"
    /\ art.stored < MaxArtifacts
    /\ \E d \in DataKinds, fs \in SUBSET FieldNames, n \in BOOLEAN,
          org \in BOOLEAN :
          art' = [NoArtifact EXCEPT !.pc = "CONSTRUCT", !.data = d, !.todo = fs,
                                    !.needs = n, !.organism = org,
                                    !.stored = art.stored,
                                    !.before = art.stored]
    /\ UNCHANGED <<labelsState, hub>>

\* lines 29-35: the artifact object is built from the frame
ArtConstruct ==
    /\ art.pc = "CONSTRUCT"
    /\ LET c == Constructor(art.data)
       IN  IF c = "ValueError"
           THEN art' = [art EXCEPT !.pc = "FAILED", !.raised = "ValueError"]
           ELSE \/ art' = ArtRaise(c)
                \/ art' = [art EXCEPT !.pc = "SAVE", !.created = TRUE,
                                      !.n_obs = (c = "from_anndata"),
                                      !.ops = @ \cup {c}]
    /\ UNCHANGED <<labelsState, hub>>

\* line 36: artifact.save()
ArtSave ==
    /\ art.pc = "SAVE"
    /\ \/ art' = ArtRaise("save")
       \/ art' = [art EXCEPT !.pc = "FEATURES", !.stored = @ + 1,
                             !.ops = @ \cup {"save"}]
    /\ UNCHANGED <<labelsState, hub>>

\* lines 38-46: the organism of the feature registry, then the feature sets
ArtFeatures ==
    /\ art.pc = "FEATURES"
    /\ IF art.needs /\ ~art.organism
       THEN art' = ArtRaise("check_if_registry_needs_organism")
       ELSE \/ art' = ArtRaise("add_features")
            \/ art' = [art EXCEPT !.pc = "LABELS", !.featured = TRUE,
                                  !.ops = @ \cup {"add_features"}]
    /\ UNCHANGED <<labelsState, hub>>

\* lines 49-58: one turn of the loop over `fields`, in the mapping's order
ArtLabel ==
    /\ art.pc = "LABELS"
    /\ art.todo # {}
    /\ LET feature_name == CHOOSE f \in art.todo : \A g \in art.todo : f <= g
       IN  \/ /\ ~art.organism
              /\ art' = ArtRaise("check_if_registry_needs_organism")
           \/ art' = ArtRaise("from_values")
           \/ art' = ArtRaise("labels_add")
           \/ art' = [art EXCEPT !.todo = @ \ {feature_name},
                                 !.labelled = @ \cup {feature_name},
                                 !.ops = @ \cup {"from_values", "labels_add"}]
    /\ UNCHANGED <<labelsState, hub>>

\* lines 60-65: the success message and the return
ArtDone ==
    /\ art.pc = "LABELS"
    /\ art.todo = {}
    /\ art' = [art EXCEPT !.pc = "DONE"]
    /\ UNCHANGED <<labelsState, hub>>

\* The call has returned or raised; what it stored stays stored.
ArtReturn ==
    /\ art.pc \in {"DONE", "FAILED"}
    /\ art' = [NoArtifact EXCEPT !.stored = art.stored, !.before = art.stored]
    /\ UNCHANGED <<labelsState, hub>>

ArtNext ==
    \/ ArtCall
    \/ ArtConstruct
    \/ ArtSave
    \/ ArtFeatures
    \/ ArtLabel
    \/ ArtDone
    \/ ArtReturn

ArtifactSpec == Init /\ [][ArtNext]_vars

\* ------------------------------------------------- sign_in_hub, the steps

HubRaise(op) == [hub EXCEPT !.pc = "FAILED", !.raised = op]

\* A caller calls sign_in_hub(user_email, secret).
HubCall ==
    /\ hub.pc = "idle"
    /\ \E u \in Users :
          hub' = [NoSignIn EXCEPT !.pc = "SIGN_IN", !.user = u,
                                  !.usermeta = hub.usermeta]
    /\ UNCHANGED <<labelsState, art>>

\* lines 39-40: connect_hub() and hub.auth.sign_in
HubSignIn ==
    /\ hub.pc = "SIGN_IN"
    /\ \/ hub' = HubRaise("sign_in")
       \/ hub' = [hub EXCEPT !.pc = "SELECT", !.session = TRUE]
    /\ UNCHANGED <<labelsState, art>>

\* lines 41-44: the user's usermeta row is looked up
HubSelect ==
    /\ hub.pc = "SELECT"
    /\ \/ hub' = HubRaise("select")
       \/ LET lnid == hub.usermeta[hub.user]
          IN  IF lnid # 0
              THEN hub' = [hub EXCEPT !.pc = "SIGN_OUT", !.found = TRUE,
                                      !.data = TRUE, !.user_id = lnid]
              ELSE hub' = [hub EXCEPT !.pc = "INSERT"]
    /\ UNCHANGED <<labelsState, art>>

\* lines 45-51: a fresh identifier, and the insert of the usermeta row,
\* which stores and returns the row, returns no row, or raises
HubInsert ==
    /\ hub.pc = "INSERT"
    /\ \E i \in Ids :
          \/ hub' = [HubRaise("insert") EXCEPT !.user_id = i, !.inserts = @ + 1]
          \/ hub' = [hub EXCEPT !.pc = "ASSERT", !.user_id = i,
                                !.inserts = @ + 1, !.data = TRUE,
                                !.usermeta = [@ EXCEPT ![hub.user] = i]]
          \/ hub' = [hub EXCEPT !.pc = "ASSERT", !.user_id = i,
                                !.inserts = @ + 1, !.data = FALSE]
    /\ UNCHANGED <<labelsState, art>>

\* lines 52-53: the assertion on the returned rows
HubAssert ==
    /\ hub.pc = "ASSERT"
    /\ IF Asserted(hub.data)
       THEN hub' = [hub EXCEPT !.pc = "SIGN_OUT"]
       ELSE hub' = HubRaise("AssertionError")
    /\ UNCHANGED <<labelsState, art>>

\* lines 54-55: hub.auth.sign_out() and the return of user_id
HubSignOut ==
    /\ hub.pc = "SIGN_OUT"
    /\ \/ hub' = HubRaise("sign_out")
       \/ hub' = [hub EXCEPT !.pc = "DONE", !.session = FALSE,
                             !.result = hub.user_id]
    /\ UNCHANGED <<labelsState, art>>

\* The call has returned or raised; the hub keeps its rows.
HubReturn ==
    /\ hub.pc \in {"DONE", "FAILED"}
    /\ hub' = [NoSignIn EXCEPT !.usermeta = hub.usermeta]
    /\ UNCHANGED <<labelsState, art>>

HubNext ==
    \/ HubCall
    \/ HubSignIn
    \/ HubSelect
    \/ HubInsert
    \/ HubAssert
    \/ HubSignOut
    \/ HubReturn

HubSpec == Init /\ [][HubNext]_vars

\* ------------------------------------------------------------- the claims

Ended == pc \in {"DONE", "FAILED"}

Reported == pc = "DONE" /\ reports > 0

PlaceholderOps == {"new_record", "from_df", "save_placeholders"}

UsingOps == {"_registry_using", "inspect_using", "filter_using", "save_using"}

\* C1: when a register_labels call has returned or raised, whatever the
\* stage that raised, the process-wide verbosity is the one the caller had
\* when it made the call.
C1_VerbosityRestored == Ended => verbosity = prior

\* C1 witness: the parent linking raised in a call made at verbosity "warning".
C1_Witness ==
    pc = "FAILED" /\ raised = "children_add" /\ prior = "warning"

\* C2: when a call has returned, the buckets validated, "from <using>",
\* "from public" and "without reference" are pairwise disjoint and their
\* union is the set of the input values.
C2_PartitionExact ==
    pc = "DONE" =>
        /\ validated \cup fromUsing \cup fromPublic \cup withoutRef
             = ToSet(args.values)
        /\ validated \cap fromUsing = {}
        /\ validated \cap fromPublic = {}
        /\ validated \cap withoutRef = {}
        /\ fromUsing \cap fromPublic = {}
        /\ fromUsing \cap withoutRef = {}
        /\ fromPublic \cap withoutRef = {}

\* C3: with a using instance other than the local one, once the public
\* reference stage has run, every locally unknown value the using instance
\* holds is under "from <using>" and under neither "from public" nor
\* "without reference", and the public reference was asked for none of them.
C3_UsingPrecedence ==
    (pc \in {"PLACEHOLDER", "HIERARCHY_LINK", "REPORT", "DONE"}
     /\ "filter_using" \in ops) =>
        /\ nonValidated \cap UsingContent = fromUsing
        /\ fromUsing \cap fromPublic = {}
        /\ fromUsing \cap withoutRef = {}
        /\ fromPublic \subseteq nonValidated \ UsingContent

\* C3 witness: a value the public reference knows too was copied from the
\* using instance, next to one that came from the public reference.
C3_Witness ==
    /\ Reported
    /\ args.using = "other"
    /\ fromUsing \cap PublicContent(registry) # {}
    /\ fromPublic # {}

\* C4: when the local inspection found every value validated, the call is
\* over: it issued nothing but that inspection, wrote and linked nothing, and
\* reported nothing.
C4_NoOpOnFullValidation ==
    ("inspect" \in ops /\ raised = "none" /\ nonValidated = {}) =>
        /\ pc = "DONE"
        /\ ops = {"inspect"}
        /\ written = {}
        /\ linked = {}
        /\ reports = 0

\* C4 witness: a call on the free-form label type by name, with a using
\* instance and values that are all validated, has returned.
C4_Witness ==
    /\ pc = "DONE"
    /\ LinksParent(registry, fieldName)
    /\ args.using = "other"
    /\ validated # {}
    /\ nonValidated = {}

\* C5: the label registry holds at most one record named is_<feature_name>,
\* and a call saves a parent only where it found none: the one row is then
\* the row this call inserted.
C5_AtMostOneParent ==
    LinksParent(registry, fieldName) =>
        /\ Rows(local, ParentName) <= 1
        /\ ("save_parent" \in ops /\ raised # "save_parent")
             => <<"new", ParentName>> \in written

\* C5 witness: a call ran the hierarchy linker and reused the stored parent.
C5_Witness ==
    /\ Reported
    /\ "children_add" \in ops
    /\ "save_parent" \notin ops
    /\ Rows(local, ParentName) = 1

\* C6: a call that repeats the previous, completed call creates no record,
\* copies none from the using instance, and adds no parent and no link.
C6_SecondCallWritesNothing ==
    repeat =>
        /\ written = {}
        /\ linked = {}
        /\ "save_using" \notin ops
        /\ "save_parent" \notin ops

\* C6 witness: the repeat of a call that had written records ran through to
\* its report.
C6_Witness == repeat /\ Reported /\ prev.written # {}

\* C7 (as stated): the repeat of a completed call ends with the buckets the
\* first call ended with.
C7_SamePartition ==
    (repeat /\ pc = "DONE") =>
        /\ validated = prev.validated
        /\ fromUsing = prev.fromUsing
        /\ fromPublic = prev.fromPublic
        /\ withoutRef = prev.withoutRef

\* C7 (amended): the repeat of a completed call reports as validated the
\* values the first call found validated and the input values whose record
\* the first call inserted, finds nothing more in the using instance or the
\* public reference, and, where unresolved values are not registered, ends
\* with the first call's "without reference" bucket.
C7_PartitionAfterRepeat ==
    (repeat /\ pc = "DONE") =>
        /\ validated
             = prev.validated
               \cup (ToSet(args.values) \cap ValuesOf(prev.written))
        /\ fromUsing = {}
        /\ fromPublic = {}
        /\ EffectiveValidatedOnly(registry, args.validated_only)
             => withoutRef = prev.withoutRef

\* C7 witness: the first call copied a value from the using instance and
\* left one without reference, and its repeat has reported.
C7_Witness ==
    /\ repeat
    /\ Reported
    /\ prev.fromUsing # {}
    /\ withoutRef # {}

C9_OneRecordPerValue == \A v \in Values : Rows(local, v) <= 1

\* C9 witness: a call whose list names one value twice copied that value's
\* record from the using instance, beside records of earlier calls.
C9_Witness ==
    /\ Reported
    /\ Len(args.values) = 2
    /\ args.values[1] = args.values[2]
    /\ written = {<<"using", args.values[1]>>}
    /\ BagCardinality(local) > 1

\* C10: with using absent or "default", the using stage resolves no instance,
\* reads and writes no registry, and hands on ([], values).
C10_LocalUsingIsNoOp ==
    (args.using \in {"none", "default"}) =>
        /\ ops \cap UsingOps = {}
        /\ pc = "PUBLIC_REFERENCE" =>
             /\ fromUsing = {}
             /\ leftover = nonValidated
             /\ written = {}
             /\ ops = {"inspect"}

\* C10 witness: the using stage has run with using "default" on a value the
\* other instance holds.
C10_Witness ==
    /\ pc = "PUBLIC_REFERENCE"
    /\ args.using = "default"
    /\ nonValidated \cap UsingContent # {}

\* C11: a register_labels call on a registry that requires an organism, made
\* without one, ends with the missing-context error, and a call that ended
\* with it issued no operation on any instance, wrote no record, added no
\* link, and neither read nor changed the verbosity.
C11_MissingOrganismFailsFirst ==
    /\ (pc \notin {"idle", "START"} /\ RequiresOrganism(registry)
           /\ ~args.organism)
          => raised = "check_if_registry_needs_organism"
    /\ raised = "check_if_registry_needs_organism"
          => /\ pc = "FAILED"
             /\ ops = {} /\ written = {} /\ linked = {}
             /\ saved = "unset" /\ verbosity = prior

\* C11 witness: the error ended a call that named a using instance and
\* values, on a registry that already holds records.
C11_Witness ==
    /\ pc = "FAILED" /\ raised = "check_if_registry_needs_organism"
    /\ args.using = "other" /\ args.values # <<>>
    /\ local # EmptyBag

\* C12: resolving an unknown using instance ends the call with that error,
\* after the local inspection and the attempt to resolve only: no lookup in
\* the public reference, no placeholder, no parent linking, no local write,
\* and the verbosity is the caller's again.  No call that names an unknown
\* instance gets past the using stage.
C12_UnknownInstancePropagates ==
    /\ raised = "_registry_using"
          => /\ pc = "FAILED"
             /\ ops = {"inspect", "_registry_using"}
             /\ written = {} /\ linked = {}
             /\ fromPublic = {} /\ withoutRef = {}
             /\ verbosity = prior
    /\ args.using = "unknown"
          => /\ pc \notin {"PUBLIC_REFERENCE", "PLACEHOLDER", "HIERARCHY_LINK",
                            "REPORT"}
             /\ pc = "DONE" => nonValidated = {}

\* C12 witness: the error ended a call made at verbosity "warning" whose
\* values could all have been registered without the using instance.
C12_Witness ==
    /\ pc = "FAILED" /\ raised = "_registry_using"
    /\ prior = "warning" /\ ~args.validated_only
    /\ Cardinality(nonValidated) = MaxLen

\* C13: a register_artifact call whose data is neither a DataFrame nor an
\* AnnData ends with the ValueError, and a call that ended with it built no
\* artifact, stored none, issued no operation, and added no feature set and
\* no label.
C13_InputShapeFailsFast ==
    /\ (art.pc \notin {"idle", "CONSTRUCT"}
           /\ art.data \notin {"AnnData", "DataFrame"})
          => art.raised = "ValueError"
    /\ art.raised = "ValueError"
          => /\ art.pc = "FAILED"
             /\ art.data \notin {"AnnData", "DataFrame"}
             /\ ~art.created /\ ~art.n_obs
             /\ art.stored = art.before
             /\ art.ops = {}
             /\ ~art.featured /\ art.labelled = {}

\* C13 witness: the ValueError ended a call that passed a dict and fields
\* to link, after an earlier call had stored an artifact.
C13_Witness ==
    /\ art.pc = "FAILED" /\ art.raised = "ValueError"
    /\ art.data = "dict" /\ art.todo = FieldNames
    /\ art.stored > 0

\* The stage changes the state machine of a call allows.
StageStep ==
    \/ pc' = pc
    \/ pc = "idle" /\ pc' = "START"
    \/ pc = "START" /\ pc' \in {"LOCAL_INSPECT", "FAILED"}
    \/ /\ pc = "LOCAL_INSPECT"
       /\ \/ pc' = "FAILED"
          \/ pc' = "DONE" /\ nonValidated' = {}
          \/ pc' = "CROSS_INSTANCE" /\ nonValidated' # {}
    \/ pc = "CROSS_INSTANCE" /\ pc' \in {"PUBLIC_REFERENCE", "FAILED"}
    \/ /\ pc = "PUBLIC_REFERENCE"
       /\ pc' \in {"PLACEHOLDER", "HIERARCHY_LINK", "REPORT", "FAILED"}
    \/ pc = "PLACEHOLDER" /\ pc' \in {"HIERARCHY_LINK", "REPORT", "FAILED"}
    \/ pc = "HIERARCHY_LINK" /\ pc' \in {"REPORT", "FAILED"}
    \/ pc = "REPORT" /\ pc' = "DONE"
    \/ pc = "DONE" /\ pc' \in {"idle", "START"}
    \/ pc = "FAILED" /\ pc' = "idle"

\* C14: a call moves through its stages in the one order START,
\* LOCAL_INSPECT, then DONE (nothing left to validate) or CROSS_INSTANCE,
\* PUBLIC_REFERENCE, PLACEHOLDER where it applies, HIERARCHY_LINK where it
\* applies, REPORT, DONE; it leaves a stage forwards only, or by a failure
\* that ends it; and every call that has started ends, returned or failed.
C14_StagesInOrderToTheEnd ==
    /\ [][StageStep]_vars
    /\ (pc = "START") ~> (pc \in {"DONE", "FAILED"})

\* C14 witness: a call has returned after every stage did its work.
C14_Witness ==
    /\ Reported
    /\ {"save_using", "from_values", "save_placeholders", "children_add"}
          \subseteq ops

\* C15: once the placeholder registrar has run in the dataframe-derived mode
\* (feature registry, df supplied), the "without reference" bucket is exactly
\* the df columns that are neither validated locally, nor copied from the
\* using instance, nor built from the public reference.
C15_DataframeBucketIsUnaccounted ==
    (/\ pc \in {"HIERARCHY_LINK", "REPORT", "DONE"}
     /\ registry = "Feature" /\ args.df.given
     /\ "from_df" \in ops)
        => withoutRef = {c \in args.df.columns :
                           c \notin validated \cup fromUsing \cup fromPublic}

\* C16: when a call that ran the parent linking has returned, each of its
\* values has a stored record and is a child of the parent label; and no
\* step ever takes a child away, linking again included.
C16_ChildrenLinkedAndKept ==
    /\ []((Reported /\ "children_add" \in ops)
            => ToSet(args.values)
                 \subseteq (ValuesOf(BagToSet(local)) \cap children))
    /\ [][children \subseteq children']_vars

\* C16 witness: a call has returned whose parent linking met both a value
\* that was a child already and a value that was not.
C16_Witness ==
    /\ Reported /\ "children_add" \in ops
    /\ linked # {}
    /\ ToSet(args.values) \ linked # {}

\* C17: when the using stage has left no value unresolved, the
\* public-reference stage does nothing: it does not fail, does not call
\* from_values, writes no record, and leaves the "from public" and the
\* "without reference" bucket empty.
C17_NothingLeftSkipsPublicReference ==
    [][(pc = "PUBLIC_REFERENCE" /\ leftover = {})
          => /\ pc' \notin {"PUBLIC_REFERENCE", "FAILED"}
             /\ "from_values" \notin ops' /\ "save" \notin ops'
             /\ local' = local /\ written' = written
             /\ fromPublic' = {} /\ withoutRef' = {}]_vars

\* C17 witness: a call has returned whose values not validated locally were
\* all copied from the using instance, without a public-reference lookup.
C17_Witness ==
    /\ Reported
    /\ leftover = {} /\ "save_using" \in ops
    /\ "from_values" \notin ops

\* C18: sign_in_hub with a usermeta row for the user issues no insert and
\* returns the stored lnid; without one it issues a single insert, and when
\* that returns no row the call ends with the AssertionError, with no user
\* id returned; it never goes on to sign out after an insert that returned
\* no row.
C18_IncompleteSignUpIsFatal ==
    /\ hub.inserts <= 1
    /\ hub.raised = "AssertionError"
          => /\ hub.pc = "FAILED"
             /\ ~hub.found /\ ~hub.data
             /\ hub.inserts = 1
             /\ hub.result = 0
             /\ hub.usermeta[hub.user] = 0
    /\ hub.pc \in {"SIGN_OUT", "DONE"} => hub.data
    /\ hub.found
          => /\ hub.inserts = 0
             /\ hub.user_id = hub.usermeta[hub.user]
             /\ hub.pc = "DONE" => hub.result = hub.usermeta[hub.user]

\* C18 witness, the insert that returned no row: the AssertionError ended a
\* call while another user's row was stored.
C18_Witness ==
    /\ hub.pc = "FAILED" /\ hub.raised = "AssertionError"
    /\ \E u \in Users : hub.usermeta[u] # 0

\* C19: a call that has returned ran log_registered_labels once if the local
\* inspection left a value, and not at all if it left none; a call that
\* failed did not run it; and when it runs, and ever after, the verbosity is
\* the caller's again.
C19_OneReportAfterRestore ==
    /\ pc = "DONE" => reports = (IF nonValidated = {} THEN 0 ELSE 1)
    /\ pc = "FAILED" => reports = 0 /\ "log" \notin ops
    /\ pc = "REPORT" => reports = 0 /\ verbosity = prior
    /\ reports > 0 => pc = "DONE" /\ verbosity = prior
    /\ pc \notin {"REPORT", "DONE"} => reports = 0

\* C19 witness: the report ran once in a call made at verbosity "warning"
\* that registered placeholders.
C19_Witness ==
    /\ Reported /\ reports = 1
    /\ prior = "warning" /\ "save_placeholders" \in ops

\* C20: when a call has returned or failed, the mapping the caller passed as
\* kwargs holds what it held when the call was made.
C20_KwargsUnchanged == Ended => kwargs = KwargsOf(args)

====
